---- MODULE Spec2Model ----
(***************************************************************************)
(* A model of the HTTP server of src/main.go: the mutex-guarded hit        *)
(* counter (middlewareMetricsInc, metricsHandler, resetHandler), the       *)
(* routing done by main, the chirp validator (validateChirpHandler) and    *)
(* the word substitution (replaceProfaneWords).                            *)
(*                                                                         *)
(* Strings are sequences of one-character strings, so that ToLower,        *)
(* Fields and Join really act on their characters.                         *)
(***************************************************************************)
EXTENDS Integers, Sequences, FiniteSets

VARIABLES
    \* ---- the server (specifications Spec and LiveSpec)
    fileserverHits,   \* apiConfig.fileserverHits
    mu,               \* apiConfig.mu: the goroutine holding it, or NoHolder
    pc,               \* per goroutine: where its handler stands
    path,             \* per goroutine: the path of the request it serves
    tmp,              \* per goroutine: the value loaded by fileserverHits++
    resp,             \* per goroutine: the response written so far
    hitsSinceReset,   \* history: increments that took effect since the last reset
    counted,          \* history: goroutines whose current request was counted
    \* ---- replaceProfaneWords alone (specification SpecWords)
    text, profaneWords, cleaned, recleaned, wpc,
    \* ---- validateChirpHandler alone (specification SpecChirp)
    request, outcome, cpc

serverVars == <<fileserverHits, mu, pc, path, tmp, resp, hitsSinceReset, counted>>
wordVars   == <<text, profaneWords, cleaned, recleaned, wpc>>
chirpVars  == <<request, outcome, cpc>>
vars       == <<serverVars, wordVars, chirpVars>>

(***************************************************************************)
(* Bounds of the model.                                                    *)
(***************************************************************************)
NumProcs     == 2   \* goroutines serving requests concurrently
MaxHits      == 2   \* cap on the counter (guard of a new file request)
MaxTextLen   == 3   \* length of the texts given to replaceProfaneWords
MaxWordLen   == 1   \* length of a blacklisted word in SpecWords
MaxBlacklist == 1   \* number of blacklisted words in SpecWords

(***************************************************************************)
(* Characters and strings.                                                 *)
(***************************************************************************)
UpperCase == <<"A","B","C","D","E","F","G","H","I","J","K","L","M",
               "N","O","P","Q","R","S","T","U","V","W","X","Y","Z">>
LowerCase == <<"a","b","c","d","e","f","g","h","i","j","k","l","m",
               "n","o","p","q","r","s","t","u","v","w","x","y","z">>

\* unicode.IsSpace, on the characters of the model
IsSpace(c) == c \in {" ", "\t", "\n"}

\* the lower-case letter of every upper-case letter
LowerOf ==
    [c \in {UpperCase[i] : i \in 1..Len(UpperCase)} |->
        LowerCase[CHOOSE i \in 1..Len(UpperCase) : UpperCase[i] = c]]

\* strings.ToLower on one character
ToLowerChar(c) == IF c \in DOMAIN LowerOf THEN LowerOf[c] ELSE c

\* strings.ToLower
ToLower(s) == [i \in 1..Len(s) |-> ToLowerChar(s[i])]

Min(S) == CHOOSE x \in S : \A y \in S : x <= y

\* strings.Fields: the maximal runs of non-space characters, in order.
\* FieldsFrom(s, i) skips the spaces from position i on, takes the field
\* that starts there up to the next space, and goes on behind it.
RECURSIVE FieldsFrom(_, _)
FieldsFrom(s, i) ==
    LET nonSpaces == {j \in i..Len(s) : ~IsSpace(s[j])}
    IN IF nonSpaces = {} THEN <<>>
       ELSE LET start == Min(nonSpaces)
                spaces == {j \in start..Len(s) : IsSpace(s[j])}
                end == IF spaces = {} THEN Len(s) + 1 ELSE Min(spaces)
            IN <<SubSeq(s, start, end - 1)>> \o FieldsFrom(s, end)

Fields(s) == FieldsFrom(s, 1)

\* strings.Join(words, sep)
RECURSIVE Join(_, _)
Join(words, sep) ==
    IF words = <<>> THEN <<>>
    ELSE IF Len(words) = 1 THEN words[1]
    ELSE words[1] \o sep \o Join(Tail(words), sep)

\* the replacement written at main.go:34
EmptyMask == <<>>
Mask == <<"*", "*", "*", "*">>

\* the inner loop of replaceProfaneWords: does some blacklisted word, from
\* position j on, equal the lowered word (the loop breaks at the first)
CaseSensitiveMatch(loweredWord, list, j) ==
    \E k \in j..Len(list) : loweredWord = list[k]
RECURSIVE MatchesFrom(_, _, _)
MatchesFrom(loweredWord, list, j) ==
    IF j > Len(list) THEN FALSE
    ELSE IF loweredWord = ToLower(list[j]) THEN TRUE
    ELSE MatchesFrom(loweredWord, list, j + 1)

\* the outer loop of replaceProfaneWords, over words[i..]
RECURSIVE ReplaceFrom(_, _, _)
ReplaceFrom(words, list, i) ==
    IF i > Len(words) THEN words
    ELSE LET loweredWord == ToLower(words[i])
             next == IF MatchesFrom(loweredWord, list, 1)
                     THEN [words EXCEPT ![i] = Mask]
                     ELSE words
         IN ReplaceFrom(next, list, i + 1)

replaceProfaneWords(t, list) ==
    Join(ReplaceFrom(Fields(t), list, 1), <<" ">>)

(***************************************************************************)
(* Responses.  A ResponseWriter keeps the status of the first WriteHeader  *)
(* (later calls are ignored by net/http), the Content-Type set before it,  *)
(* and the payloads written to the body, in order.                         *)
(***************************************************************************)
NewResponse == [status |-> 0, contentType |-> "", body |-> <<>>]

\* http.ResponseWriter.WriteHeader
WriteHeader(w, status) ==
    IF w.status = 0 THEN [w EXCEPT !.status = status] ELSE w

\* w.Header().Set("Content-Type", ...): no effect once the header is sent
SetContentType(w, ct) ==
    IF w.status = 0 THEN [w EXCEPT !.contentType = ct] ELSE w

\* w.Write / json.NewEncoder(w).Encode: an implicit WriteHeader(200), then the payload
WriteBody(w, payload) ==
    [WriteHeader(w, 200) EXCEPT !.body = Append(w.body, payload)]

respondWithError(w, status, message) ==
    WriteBody(WriteHeader(w, status), [error |-> message])

respondWithJSON(w, status, payload) ==
    WriteBody(WriteHeader(SetContentType(w, "application/json"), status), payload)

(***************************************************************************)
(* validateChirpHandler.  A request body is malformed JSON, or a JSON      *)
(* object whose "body" member is absent, a number, or a string.            *)
(***************************************************************************)
MaxChirpLen == 140

handlerProfaneWords ==
    << <<"k","e","r","f","u","f","f","l","e">>,
       <<"s","h","a","r","b","e","r","t">>,
       <<"f","o","r","n","a","x">> >>

\* decoder.Decode(params) into chirpRequest{Body string `json:"body"`}
Decode(raw) ==
    CASE raw.shape = "malformed" -> [err |-> TRUE,  Body |-> <<>>]
      [] raw.shape = "number"    -> [err |-> TRUE,  Body |-> <<>>]
      [] raw.shape = "absent"    -> [err |-> FALSE, Body |-> <<>>]
      [] raw.shape = "string"    -> [err |-> FALSE, Body |-> raw.body]

\* main.go:117-125: the length check, the substitution and the 200 response
chirpCheckAndClean(w, Body) ==
    LET w1 == IF Len(Body) > MaxChirpLen
              THEN respondWithError(w, 400, "Chirp is too long")
              ELSE w
        cleanedBody == replaceProfaneWords(Body, handlerProfaneWords)
    IN [w |-> respondWithJSON(w1, 200, [cleaned_body |-> cleanedBody]),
        decodes |-> 1, cleans |-> 1]

\* main.go:103-126: decode, then the rest
chirpDecodeAndRespond(w, r) ==
    LET params == Decode(r.raw)
    IN IF params.err
       THEN [w |-> respondWithError(w, 400, "Something went wrong"),
             decodes |-> 1, cleans |-> 0]
       ELSE chirpCheckAndClean(w, params.Body)

\* the handler with the return of main.go:100 left out
validateChirpHandlerNoReturn(r) ==
    IF r.method # "POST"
    THEN chirpDecodeAndRespond(
             respondWithError(NewResponse, 405, "Method not allowed"), r)
    ELSE chirpDecodeAndRespond(NewResponse, r)

\* the whole handler: the response it writes, how often it decoded the body
\* and how often it ran the substitution
validateChirpHandler(r) ==
    IF r.method # "POST"
    THEN [w |-> respondWithError(NewResponse, 405, "Method not allowed"),
          decodes |-> 0, cleans |-> 0]
    ELSE chirpDecodeAndRespond(NewResponse, r)

(***************************************************************************)
(* The server's initial state (main.go:132: apiCfg := &apiConfig{}).       *)
(***************************************************************************)
Procs == 1..NumProcs
NoHolder == 0

ServerInit ==
    /\ fileserverHits = 0
    /\ mu = NoHolder
    /\ pc = [p \in Procs |-> "idle"]
    /\ path = [p \in Procs |-> ""]
    /\ tmp = [p \in Procs |-> 0]
    /\ resp = [p \in Procs |-> NewResponse]
    /\ hitsSinceReset = 0
    /\ counted = {}

WordsIdle ==
    /\ text = <<>>
    /\ profaneWords = <<>>
    /\ cleaned = <<>>
    /\ recleaned = <<>>
    /\ wpc = "unused"

NoOutcome == [w |-> NewResponse, decodes |-> 0, cleans |-> 0]

ChirpIdle ==
    /\ request = [method |-> "GET", raw |-> [shape |-> "malformed"]]
    /\ outcome = NoOutcome
    /\ cpc = "unused"

(***************************************************************************)
(* SpecWords: replaceProfaneWords applied to every text and blacklist of   *)
(* the bounds, and then once more to its own result.                       *)
(***************************************************************************)
SeqsFromTo(S, lo, hi) == UNION {[1..k -> S] : k \in lo..hi}

TextChars == {"a", "A", "b", " ", "\t"}
WordChars == {"a", "A", "b"}
Texts == SeqsFromTo(TextChars, 0, MaxTextLen)
Blacklists == SeqsFromTo(SeqsFromTo(WordChars, 1, MaxWordLen), 0, MaxBlacklist)

WordsInit ==
    /\ text \in Texts
    /\ profaneWords \in Blacklists
    /\ cleaned = <<>>
    /\ recleaned = <<>>
    /\ wpc = "start"
    /\ ServerInit
    /\ ChirpIdle

FirstPass ==
    /\ wpc = "start"
    /\ cleaned' = replaceProfaneWords(text, profaneWords)
    /\ wpc' = "once"
    /\ UNCHANGED <<text, profaneWords, recleaned, serverVars, chirpVars>>

SecondPass ==
    /\ wpc = "once"
    /\ recleaned' = replaceProfaneWords(cleaned, profaneWords)
    /\ wpc' = "twice"
    /\ UNCHANGED <<text, profaneWords, cleaned, serverVars, chirpVars>>

WordsNext == FirstPass \/ SecondPass

SpecWords == WordsInit /\ [][WordsNext]_vars

(***************************************************************************)
(* SpecChirp: validateChirpHandler applied to one request.                 *)
(***************************************************************************)
Filler(n) == [i \in 1..n |-> "x"]

ChirpWords ==
    { <<"k","e","r","f","u","f","f","l","e">>,
      <<"K","E","R","F","U","F","F","L","E">>,
      <<"F","o","r","n","a","x">>,
      <<"s","h","a","r","b","e","r","t","!">>,
      <<"h","e","l","l","o">> }

ShortBodies ==
    {<<>>} \cup ChirpWords
           \cup {a \o <<" ">> \o b : a \in ChirpWords, b \in ChirpWords}

LongLengths == {MaxChirpLen - 1, MaxChirpLen, MaxChirpLen + 1, MaxChirpLen + 2}

LongBodies ==
    {Filler(n) : n \in LongLengths}
    \cup {<<"f","o","r","n","a","x"," ">> \o Filler(n - 7) : n \in LongLengths}

RawBodies ==
    {[shape |-> "malformed"], [shape |-> "number"], [shape |-> "absent"]}
    \cup {[shape |-> "string", body |-> b] : b \in ShortBodies \cup LongBodies}

Methods == {"GET", "POST", "PUT"}

ChirpRequests == [method : Methods, raw : RawBodies]

ChirpInit ==
    /\ request \in ChirpRequests
    /\ outcome = NoOutcome
    /\ cpc = "start"
    /\ ServerInit
    /\ WordsIdle

HandleChirp ==
    /\ cpc = "start"
    /\ outcome' = validateChirpHandler(request)
    /\ cpc' = "done"
    /\ UNCHANGED <<request, serverVars, wordVars>>

ChirpNext == HandleChirp

SpecChirp == ChirpInit /\ [][ChirpNext]_vars

(***************************************************************************)
(* Spec: the server.  Each goroutine serves one request after another;     *)
(* the mux built by main routes a request to its handler, and the handlers *)
(* that touch the counter advance one statement at a time.                 *)
(***************************************************************************)
AppPaths == {"/app/", "/app/missing.html"}
Paths == AppPaths \cup {"/api/healthz", "/admin/metrics", "/api/reset",
                        "/api/validate_chirp", "/favicon.ico"}
ServerMethods == {"GET", "POST"}

ServerRawBodies ==
    { [shape |-> "malformed"],
      [shape |-> "string", body |-> <<"F","o","r","n","a","x"," ","h","i">>],
      [shape |-> "string", body |-> Filler(MaxChirpLen + 1)] }

\* the patterns registered in main
Route(method, target) ==
    CASE target = "/api/healthz" ->
             IF method = "GET" THEN "healthz" ELSE "405"
      [] target \in AppPaths -> "fileserver"
      [] target = "/admin/metrics" ->
             IF method = "GET" THEN "metrics" ELSE "405"
      [] target = "/api/reset" -> "reset"
      [] target = "/api/validate_chirp" -> "validate_chirp"
      [] OTHER -> "404"

\* file requests whose increment is still to come
PendingIncrements ==
    Cardinality({p \in Procs : pc[p] \in {"app_lock", "app_load", "app_store"}})

\* the mux hands a request to a handler that takes the lock
Dispatch(p) ==
    /\ pc[p] = "idle"
    /\ \E method \in ServerMethods, target \in Paths :
          LET h == Route(method, target)
          IN /\ h \in {"fileserver", "metrics", "reset"}
             /\ h = "fileserver" => fileserverHits + PendingIncrements < MaxHits
             /\ pc' = [pc EXCEPT ![p] = CASE h = "fileserver" -> "app_lock"
                                          [] h = "metrics"    -> "met_lock"
                                          [] h = "reset"      -> "rst_lock"]
             /\ path' = [path EXCEPT ![p] = target]
    /\ resp' = [resp EXCEPT ![p] = NewResponse]
    /\ counted' = counted \ {p}
    /\ UNCHANGED <<fileserverHits, mu, tmp, hitsSinceReset, wordVars, chirpVars>>

\* the mux answers a request no pattern accepts
MuxReject(p) ==
    /\ pc[p] = "idle"
    /\ \E method \in ServerMethods, target \in Paths :
          LET h == Route(method, target)
          IN /\ h \in {"404", "405"}
             /\ path' = [path EXCEPT ![p] = target]
             /\ resp' = [resp EXCEPT ![p] =
                    WriteBody(WriteHeader(NewResponse, IF h = "404" THEN 404 ELSE 405),
                              [text |-> h])]
    /\ counted' = counted \ {p}
    /\ UNCHANGED <<fileserverHits, mu, pc, tmp, hitsSinceReset, wordVars, chirpVars>>

\* healthzHandler, whole
HealthzHandler(p) ==
    /\ pc[p] = "idle"
    /\ \E method \in ServerMethods :
          Route(method, "/api/healthz") = "healthz"
    /\ path' = [path EXCEPT ![p] = "/api/healthz"]
    /\ resp' = [resp EXCEPT ![p] =
           WriteBody(WriteHeader(
               SetContentType(NewResponse, "text/plain; charset=utf-8"), 200),
               [text |-> "OK"])]
    /\ counted' = counted \ {p}
    /\ UNCHANGED <<fileserverHits, mu, pc, tmp, hitsSinceReset, wordVars, chirpVars>>

\* validateChirpHandler, whole, as served by the mux
ValidateChirp(p) ==
    /\ pc[p] = "idle"
    /\ \E method \in ServerMethods, raw \in ServerRawBodies :
          /\ Route(method, "/api/validate_chirp") = "validate_chirp"
          /\ resp' = [resp EXCEPT ![p] =
                 validateChirpHandler([method |-> method, raw |-> raw]).w]
    /\ path' = [path EXCEPT ![p] = "/api/validate_chirp"]
    /\ counted' = counted \ {p}
    /\ UNCHANGED <<fileserverHits, mu, pc, tmp, hitsSinceReset, wordVars, chirpVars>>

\* ---- middlewareMetricsInc
\* cfg.mu.Lock() skipped: the increment runs without the mutex
AppLockSkipped(p) ==
    /\ pc[p] = "app_lock"
    /\ pc' = [pc EXCEPT ![p] = "app_load"]
    /\ UNCHANGED <<fileserverHits, mu, path, tmp, resp, hitsSinceReset, counted,
                   wordVars, chirpVars>>

\* cfg.mu.Lock()
AppLock(p) ==
    /\ pc[p] = "app_lock"
    /\ mu = NoHolder
    /\ mu' = p
    /\ pc' = [pc EXCEPT ![p] = "app_load"]
    /\ UNCHANGED <<fileserverHits, path, tmp, resp, hitsSinceReset, counted,
                   wordVars, chirpVars>>

\* cfg.fileserverHits++, the load
AppLoad(p) ==
    /\ pc[p] = "app_load"
    /\ tmp' = [tmp EXCEPT ![p] = fileserverHits]
    /\ pc' = [pc EXCEPT ![p] = "app_store"]
    /\ UNCHANGED <<fileserverHits, mu, path, resp, hitsSinceReset, counted,
                   wordVars, chirpVars>>

\* cfg.fileserverHits++, the store
AppStore(p) ==
    /\ pc[p] = "app_store"
    /\ fileserverHits' = tmp[p] + 1
    /\ tmp' = [tmp EXCEPT ![p] = 0]
    /\ hitsSinceReset' = hitsSinceReset + 1
    /\ counted' = counted \cup {p}
    /\ pc' = [pc EXCEPT ![p] = "app_unlock"]
    /\ UNCHANGED <<mu, path, resp, wordVars, chirpVars>>

\* the unlock deferred to the end of the handler: next.ServeHTTP starts
\* with the mutex still held
AppUnlockDeferred(p) ==
    /\ pc[p] = "app_unlock"
    /\ pc' = [pc EXCEPT ![p] = "app_serve"]
    /\ UNCHANGED <<fileserverHits, mu, path, tmp, resp, hitsSinceReset, counted,
                   wordVars, chirpVars>>

\* cfg.mu.Unlock()
AppUnlock(p) ==
    /\ pc[p] = "app_unlock"
    /\ mu' = NoHolder
    /\ pc' = [pc EXCEPT ![p] = "app_serve"]
    /\ UNCHANGED <<fileserverHits, path, tmp, resp, hitsSinceReset, counted,
                   wordVars, chirpVars>>

\* next.ServeHTTP(w, r): the file server answers, with the directory
\* listing of "." or with its 404 for a file that is not there
AppServe(p) ==
    /\ pc[p] = "app_serve"
    /\ resp' = [resp EXCEPT ![p] =
           WriteBody(WriteHeader(resp[p], IF path[p] = "/app/" THEN 200 ELSE 404),
                     [text |-> "file server"])]
    /\ pc' = [pc EXCEPT ![p] = "idle"]
    /\ UNCHANGED <<fileserverHits, mu, path, tmp, hitsSinceReset, counted,
                   wordVars, chirpVars>>

\* ---- metricsHandler
\* the handler reading the counter without taking the mutex
MetLockSkipped(p) ==
    /\ pc[p] = "met_lock"
    /\ pc' = [pc EXCEPT ![p] = "met_write"]
    /\ UNCHANGED <<fileserverHits, mu, path, tmp, resp, hitsSinceReset, counted,
                   wordVars, chirpVars>>

\* cfg.mu.Lock(); defer cfg.mu.Unlock()
MetLock(p) ==
    /\ pc[p] = "met_lock"
    /\ mu = NoHolder
    /\ mu' = p
    /\ pc' = [pc EXCEPT ![p] = "met_write"]
    /\ UNCHANGED <<fileserverHits, path, tmp, resp, hitsSinceReset, counted,
                   wordVars, chirpVars>>

\* the page counting its own visit
MetWriteCounting(p) ==
    /\ pc[p] = "met_write"
    /\ fileserverHits' = fileserverHits + 1
    /\ resp' = [resp EXCEPT ![p] =
           WriteBody(WriteHeader(
               SetContentType(resp[p], "text/plain; charset=utf-8"), 200),
               [hits |-> fileserverHits + 1])]
    /\ pc' = [pc EXCEPT ![p] = "met_return"]
    /\ UNCHANGED <<mu, path, tmp, hitsSinceReset, counted, wordVars, chirpVars>>

\* the header, Sprintf reading cfg.fileserverHits, and w.Write
MetWrite(p) ==
    /\ pc[p] = "met_write"
    /\ resp' = [resp EXCEPT ![p] =
           WriteBody(WriteHeader(
               SetContentType(resp[p], "text/plain; charset=utf-8"), 200),
               [hits |-> fileserverHits])]
    /\ pc' = [pc EXCEPT ![p] = "met_return"]
    /\ UNCHANGED <<fileserverHits, mu, path, tmp, hitsSinceReset, counted,
                   wordVars, chirpVars>>

\* the return, running the deferred cfg.mu.Unlock()
MetReturn(p) ==
    /\ pc[p] = "met_return"
    /\ mu' = NoHolder
    /\ pc' = [pc EXCEPT ![p] = "idle"]
    /\ UNCHANGED <<fileserverHits, path, tmp, resp, hitsSinceReset, counted,
                   wordVars, chirpVars>>

\* ---- resetHandler
\* cfg.mu.Lock()
RstLock(p) ==
    /\ pc[p] = "rst_lock"
    /\ mu = NoHolder
    /\ mu' = p
    /\ pc' = [pc EXCEPT ![p] = "rst_zero"]
    /\ UNCHANGED <<fileserverHits, path, tmp, resp, hitsSinceReset, counted,
                   wordVars, chirpVars>>

\* the reset that forgets the counter
RstZeroSkipped(p) ==
    /\ pc[p] = "rst_zero"
    /\ hitsSinceReset' = 0
    /\ pc' = [pc EXCEPT ![p] = "rst_unlock"]
    /\ UNCHANGED <<fileserverHits, mu, path, tmp, resp, counted, wordVars, chirpVars>>

\* cfg.fileserverHits = 0
RstZero(p) ==
    /\ pc[p] = "rst_zero"
    /\ fileserverHits' = 0
    /\ hitsSinceReset' = 0
    /\ pc' = [pc EXCEPT ![p] = "rst_unlock"]
    /\ UNCHANGED <<mu, path, tmp, resp, counted, wordVars, chirpVars>>

\* the handler going on without cfg.mu.Unlock()
RstUnlockForgotten(p) ==
    /\ pc[p] = "rst_unlock"
    /\ pc' = [pc EXCEPT ![p] = "rst_write"]
    /\ UNCHANGED <<fileserverHits, mu, path, tmp, resp, hitsSinceReset, counted,
                   wordVars, chirpVars>>

\* cfg.mu.Unlock()
RstUnlock(p) ==
    /\ pc[p] = "rst_unlock"
    /\ mu' = NoHolder
    /\ pc' = [pc EXCEPT ![p] = "rst_write"]
    /\ UNCHANGED <<fileserverHits, path, tmp, resp, hitsSinceReset, counted,
                   wordVars, chirpVars>>

\* the 200 "Hits counter reset"
RstWrite(p) ==
    /\ pc[p] = "rst_write"
    /\ resp' = [resp EXCEPT ![p] =
           WriteBody(WriteHeader(
               SetContentType(resp[p], "text/plain; charset=utf-8"), 200),
               [text |-> "Hits counter reset"])]
    /\ pc' = [pc EXCEPT ![p] = "idle"]
    /\ UNCHANGED <<fileserverHits, mu, path, tmp, hitsSinceReset, counted,
                   wordVars, chirpVars>>

Init == ServerInit /\ WordsIdle /\ ChirpIdle

Next ==
    \E p \in Procs :
        \/ Dispatch(p)
        \/ MuxReject(p)
        \/ HealthzHandler(p)
        \/ ValidateChirp(p)
        \/ AppLock(p)
        \/ AppLoad(p)
        \/ AppStore(p)
        \/ AppUnlock(p)
        \/ AppServe(p)
        \/ MetLock(p)
        \/ MetWrite(p)
        \/ MetReturn(p)
        \/ RstLock(p)
        \/ RstZero(p)
        \/ RstUnlock(p)
        \/ RstWrite(p)

Spec == Init /\ [][Next]_vars

\* a handler's statements that never wait
Proceed(p) ==
    \/ AppLoad(p) \/ AppStore(p) \/ AppUnlock(p) \/ AppServe(p)
    \/ MetWrite(p) \/ MetReturn(p)
    \/ RstZero(p) \/ RstUnlock(p) \/ RstWrite(p)

\* cfg.mu.Lock() returning
Acquire(p) == AppLock(p) \/ MetLock(p) \/ RstLock(p)

\* The scheduler runs every runnable goroutine, and sync.Mutex hands the
\* lock to a goroutine that keeps waiting for it (its starvation mode).
\* Requests arrive as they please.
LiveSpec ==
    /\ Spec
    /\ \A p \in Procs : WF_vars(Proceed(p)) /\ SF_vars(Acquire(p))

(***************************************************************************)
(* Properties of replaceProfaneWords (under SpecWords).                    *)
(***************************************************************************)
\* The tokens of a text, described by their positions rather than computed
\* by a scan: a token starts at a non-space character that is first or
\* follows a space, and runs up to the last non-space character before the
\* next space.
TokenStarts(t) ==
    {i \in 1..Len(t) : ~IsSpace(t[i]) /\ (i = 1 \/ IsSpace(t[i - 1]))}

TokenCount(t) == Cardinality(TokenStarts(t))

NthStart(t, n) ==
    CHOOSE i \in TokenStarts(t) :
        Cardinality({j \in TokenStarts(t) : j < i}) = n - 1

TokenEnd(t, i) ==
    CHOOSE j \in i..Len(t) :
        /\ \A k \in i..j : ~IsSpace(t[k])
        /\ (j = Len(t) \/ IsSpace(t[j + 1]))

NthToken(t, n) == SubSeq(t, NthStart(t, n), TokenEnd(t, NthStart(t, n)))

Blacklisted(token, list) ==
    \E k \in 1..Len(list) : ToLower(token) = ToLower(list[k])

ExpectedToken(t, list, n) ==
    IF Blacklisted(NthToken(t, n), list)
    THEN <<"*", "*", "*", "*">>
    ELSE NthToken(t, n)

RECURSIVE ExpectedUpTo(_, _, _)
ExpectedUpTo(t, list, n) ==
    IF n = 0 THEN <<>>
    ELSE IF n = 1 THEN ExpectedToken(t, list, 1)
    ELSE ExpectedUpTo(t, list, n - 1) \o <<" ">> \o ExpectedToken(t, list, n)

\* C5: the result of replaceProfaneWords is the tokens of the text, in
\* order and as many, joined by single spaces, a token being replaced by
\* "****" exactly when its lowercase form is the lowercase form of a
\* blacklisted word and kept unchanged otherwise.
C5_MasksExactlyBlacklisted ==
    wpc \in {"once", "twice"} =>
        cleaned = ExpectedUpTo(text, profaneWords, TokenCount(text))

\* a text of two tokens separated by a tab, the first blacklisted in another
\* case and masked, the second kept
C5_Witness ==
    /\ wpc = "once"
    /\ text = <<"A", "\t", "b">>
    /\ profaneWords = << <<"a">> >>
    /\ cleaned = <<"*", "*", "*", "*", " ", "b">>

\* C10: replaceProfaneWords is idempotent: applied to its own result with
\* the same blacklist, it returns that result unchanged.
C10_Idempotent ==
    wpc = "twice" => recleaned = cleaned

\* a second pass over a result that holds a mask and a joining space
C10_Witness ==
    /\ wpc = "twice"
    /\ cleaned = <<"*", "*", "*", "*", " ", "b">>
    /\ text # cleaned
    /\ recleaned = cleaned

(***************************************************************************)
(* Properties of validateChirpHandler (under SpecChirp).                   *)
(***************************************************************************)
IsError(payload, message) ==
    /\ DOMAIN payload = {"error"}
    /\ payload.error = message

IsCleanedBody(payload, body) ==
    /\ DOMAIN payload = {"cleaned_body"}
    /\ payload.cleaned_body = body

OnlyError(o, status, message) ==
    /\ o.w.status = status
    /\ Len(o.w.body) = 1
    /\ IsError(o.w.body[1], message)

OnlyCleanedBody(o, body) ==
    /\ o.w.status = 200
    /\ Len(o.w.body) = 1
    /\ IsCleanedBody(o.w.body[1], replaceProfaneWords(body, handlerProfaneWords))

Decodable(r) == r.method = "POST" /\ ~Decode(r.raw).err

\* C4: for a POST with a decodable body, the response is the 200 carrying
\* cleaned_body exactly when the decoded body is at most 140 long; a longer
\* body gets the 400 "Chirp is too long" and nothing else, and the word
\* substitution is not run.
C4_LengthBoundEnforced ==
    (cpc = "done" /\ Decodable(request)) =>
        LET Body == Decode(request.raw).Body
        IN /\ OnlyCleanedBody(outcome, Body) <=> Len(Body) <= MaxChirpLen
           /\ Len(Body) > MaxChirpLen =>
                  /\ OnlyError(outcome, 400, "Chirp is too long")
                  /\ outcome.cleans = 0

\* C7: a request that is not a POST gets only the 405 "Method not allowed"
\* and its body is never decoded; a POST whose body fails to decode gets
\* only the 400 "Something went wrong"; neither gets a cleaned_body.
C7_RejectsBeforeWork ==
    cpc = "done" =>
        /\ request.method # "POST" =>
               /\ OnlyError(outcome, 405, "Method not allowed")
               /\ outcome.decodes = 0
               /\ outcome.cleans = 0
        /\ (request.method = "POST" /\ Decode(request.raw).err) =>
               /\ OnlyError(outcome, 400, "Something went wrong")
               /\ outcome.cleans = 0

\* both rejections have happened: here the one of a GET with a valid body
C7_Witness ==
    /\ cpc = "done"
    /\ request.method = "GET"
    /\ request.raw.shape = "string"
    /\ OnlyError(outcome, 405, "Method not allowed")

C7_WitnessDecode ==
    /\ cpc = "done"
    /\ request.method = "POST"
    /\ request.raw.shape = "number"
    /\ OnlyError(outcome, 400, "Something went wrong")

(***************************************************************************)
(* Properties of the counter and its lock (under Spec and LiveSpec).       *)
(***************************************************************************)
LockPcs == {"app_lock", "met_lock", "rst_lock"}

\* between cfg.mu.Lock() and cfg.mu.Unlock() in program order
InCritical(p) ==
    pc[p] \in {"app_load", "app_store", "app_unlock",
               "met_write", "met_return", "rst_zero", "rst_unlock"}

\* about to read or write cfg.fileserverHits
AtAccess(p) == pc[p] \in {"app_load", "app_store", "met_write", "rst_zero"}

MidIncrement(p) == pc[p] \in {"app_load", "app_store"}

\* C1: no increment is lost: whenever no request is in the middle of its
\* increment, the counter holds exactly the number of requests that passed
\* the increment step since the last reset.
C1_NoLostIncrement ==
    (\A p \in Procs : ~MidIncrement(p)) => fileserverHits = hitsSinceReset

\* two file requests were in flight together and both are counted
C1_Witness ==
    \E p, q \in Procs :
        /\ p # q
        /\ pc[p] = "app_serve" /\ pc[q] = "app_serve"
        /\ counted = {p, q}
        /\ fileserverHits = 2

\* C2: the counter is 0 at startup and in every state equals the number of
\* file requests whose increment took effect since the last reset; each
\* increment adds exactly 1, resetHandler sets it to exactly 0, and the
\* value metricsHandler writes is the counter's value while it holds the
\* lock.
C2_CounterLifecycle ==
    /\ fileserverHits = 0
    /\ [](/\ fileserverHits = hitsSinceReset
          /\ \A p \in Procs : pc[p] = "met_return" =>
                 /\ mu = p
                 /\ resp[p].body = <<[hits |-> fileserverHits]>>)
    /\ [][\A p \in Procs :
            /\ (pc[p] = "app_store" /\ pc'[p] = "app_unlock")
                   => fileserverHits' = fileserverHits + 1
            /\ (pc[p] = "rst_zero" /\ pc'[p] = "rst_unlock")
                   => fileserverHits' = 0]_vars

\* a metrics page written after two hits, and a reset done after a hit
C2_Witness ==
    \E p, q \in Procs :
        /\ p # q
        /\ pc[p] = "met_return"
        /\ resp[p].body = <<[hits |-> 2]>>
        /\ pc[q] = "rst_lock"

\* C3: at most one handler is between Lock and Unlock, that handler holds
\* the mutex, and every read or write of fileserverHits is made by the
\* handler holding it.
C3_MutualExclusion ==
    /\ Cardinality({p \in Procs : InCritical(p)}) <= 1
    /\ \A p \in Procs : InCritical(p) => mu = p
    /\ \A p \in Procs : AtAccess(p) => mu = p

\* a handler writes the counter under the lock while another waits for it
C3_Witness ==
    \E p, q \in Procs :
        /\ pc[p] = "app_store" /\ mu = p
        /\ pc[q] = "met_lock"

\* the goroutine that takes the step
Moves(p) ==
    \/ pc'[p] # pc[p]
    \/ resp'[p] # resp[p]
    \/ path'[p] # path[p]

\* C6: the counter grows only by the increment of a request under /app/,
\* by exactly 1; it shrinks only to 0 and only by resetHandler; a step of
\* healthzHandler, metricsHandler or validateChirpHandler leaves it as it is.
C6_OnlyFileRequestsCount ==
    [][/\ fileserverHits' > fileserverHits =>
             /\ fileserverHits' = fileserverHits + 1
             /\ \E p \in Procs :
                   /\ pc[p] = "app_store" /\ pc'[p] = "app_unlock"
                   /\ path[p] \in AppPaths
       /\ fileserverHits' < fileserverHits =>
             /\ fileserverHits' = 0
             /\ \E p \in Procs :
                   /\ pc[p] = "rst_zero" /\ pc'[p] = "rst_unlock"
                   /\ path[p] = "/api/reset"
       /\ \A p \in Procs :
             (/\ Moves(p)
              /\ path'[p] \in {"/api/healthz", "/admin/metrics",
                               "/api/validate_chirp"})
             => fileserverHits' = fileserverHits]_vars

\* after one hit, a rejected chirp and a health check were served and a
\* metrics page is being written: the counter still is 1
C6_Witness ==
    \E p, q \in Procs :
        /\ fileserverHits = 1
        /\ pc[p] = "idle" /\ path[p] = "/api/validate_chirp"
        /\ resp[p].status = 400
        /\ pc[q] = "met_return"

\* C8: while next.ServeHTTP runs for a file request, that request is
\* counted and does not hold the lock; when every request is serving a
\* file, waiting for the lock or finished, the lock is free, so that a
\* waiting metrics or reset request can take it.
C8_IncrementBeforeServe ==
    /\ \A p \in Procs : pc[p] = "app_serve" => (p \in counted /\ mu # p)
    /\ (\A p \in Procs : pc[p] \in LockPcs \cup {"app_serve", "idle"})
           => mu = NoHolder

\* a metrics request holds the lock while a file is being served
C8_Witness ==
    \E p, q \in Procs :
        /\ pc[p] = "app_serve" /\ p \in counted
        /\ pc[q] = "met_write" /\ mu = q

\* some request is pending and is not waiting for a lock that is held
SomeoneCanRun ==
    \E p \in Procs :
        /\ pc[p] # "idle"
        /\ pc[p] \in LockPcs => mu = NoHolder

\* C9: a finished handler does not hold the lock, the pending requests are
\* never all blocked, and every request that waits for the lock eventually
\* completes.
C9_NoDeadlockNoStarvation ==
    /\ [](\A p \in Procs : pc[p] = "idle" => mu # p)
    /\ []((\E p \in Procs : pc[p] # "idle") => SomeoneCanRun)
    /\ \A p \in Procs : (pc[p] \in LockPcs) ~> (pc[p] = "idle")

\* every goroutine but the holder waits for the lock
C9_Witness ==
    \E q \in Procs :
        /\ mu = q
        /\ \A p \in Procs \ {q} : pc[p] \in LockPcs

====
